---- MODULE Spec2Model ----
(***************************************************************************)
(* A state-machine model of google_batch_geocoder.py: the start-up         *)
(* credential check, the row loop of process_addresses_from_csv and the    *)
(* retrying resolver geocode_address, together with the geocoding service  *)
(* seen as an environment that answers each call with a candidate list or  *)
(* with a raised exception.                                                *)
(***************************************************************************)
EXTENDS Integers, Sequences, FiniteSets, TLC

VARIABLES
    pc,               \* position of the program
    GOOGLE_API_KEY,   \* value of os.environ.get("GOOGLE_API_KEY")
    geopy_major,      \* major version of the installed geopy (fixes geopy.exc's class hierarchy)
    header_line,      \* the first line of the input file, as its characters
    csvinput,         \* the data rows of the input file, in file order, by column
    rownum,           \* number of records the row loop has taken from the reader
    csvoutput,        \* the output file: [opened, rows], rows as written field texts
    errlog,           \* rows printed by the handler of a failed writer.writerow
    query,            \* arguments of the running geocode_address call
    retry_counter,    \* retry_counter of the innermost geocode_address frame
    response,         \* what geo_locator.geocode did in the innermost frame
    location_result,  \* the dict geocode_address returns
    service_calls,    \* one entry per geo_locator.geocode call of the running resolution
    slept,            \* seconds spent in time.sleep during the running resolution
    trace             \* the blocks printed by geocode_address (lines 177-181)

vars == <<pc, GOOGLE_API_KEY, geopy_major, header_line, csvinput, rownum, csvoutput, errlog,
          query, retry_counter, response, location_result, service_calls, slept, trace>>

-----------------------------------------------------------------------------
(* Module-level configuration, lines 16-36.                                *)

ADDRESS_COLUMNS_NAME == <<"FULL_ADDRESS", "Localidad", "PROV_NAME", "COUNTRY">>
LOCALITY_COLUMN_NAMES == <<"Localidad", "PROV_NAME">>
NEW_COLUMNS_NAME == <<"Lat", "Long", "Error", "formatted_address", "location_type">>
DELIMITER == ","
RETRY_COUNTER_CONST == 5
SLEEP_SECONDS == 2

-----------------------------------------------------------------------------
(* Bounds of the model.                                                    *)

MaxCands == 3    \* longest candidate list the service returns
MaxRows == 2     \* longest input table

-----------------------------------------------------------------------------
(* Python values.  A value stored under "Error" is either a str or an      *)
(* exception object; both are records [cls, msg], a str having cls "str".  *)
(* str(v) of either is its msg.                                            *)

Str(s) == [cls |-> "str", msg |-> s]
Exc(cls, msg) == [cls |-> cls, msg |-> msg]
NoExc == Exc("", "")
StrOf(v) == v.msg

\* A key absent from a candidate's raw payload.
Missing == "<missing>"

\* localities is a list, or None (the parameter's default).
PyList(items) == [is_none |-> FALSE, items |-> items]
PyNone == [is_none |-> TRUE, items |-> <<>>]

-----------------------------------------------------------------------------
(* geopy.exc.  The classes are those the module imports; their bases       *)
(* depend on the installed geopy: up to 1.x every class derives from       *)
(* GeopyError only, from 2.0 on ConfigurationError and GeocoderQueryError  *)
(* also derive from ValueError.                                            *)

GeopyVersions == {1, 2}

Bases(cls, major) ==
    {cls} \cup
    (IF cls \in {"GeocoderTimedOut", "GeocoderQueryError", "GeocoderQuotaExceeded",
                 "ConfigurationError", "GeocoderParseError", "GeocoderUnavailable"}
        THEN {"GeopyError"} ELSE {}) \cup
    (IF major >= 2 /\ cls \in {"ConfigurationError", "GeocoderQueryError"}
        THEN {"ValueError"} ELSE {}) \cup
    {"Exception", "BaseException"}

IsInstance(e, classes, major) == Bases(e.cls, major) \cap classes # {}

\* The classes named by the except clauses of geocode_address, in order.
NonRetryableClasses ==
    {"ValueError", "GeocoderQuotaExceeded", "ConfigurationError", "GeocoderParseError"}
TransientClasses == {"GeocoderTimedOut", "GeocoderQueryError"}

\* Variant of ExceptClause: GeocoderQuotaExceeded listed with the retried classes.
ExceptClause_quota_retried(e, major) ==
    IF IsInstance(e, NonRetryableClasses \ {"GeocoderQuotaExceeded"}, major) THEN 1
    ELSE IF IsInstance(e, TransientClasses \cup {"GeocoderQuotaExceeded"}, major) THEN 2
    ELSE 3

\* Variant of ExceptClause: the last clause names GeopyError instead of BaseException.
ExceptClause_geopy_only(e, major) ==
    IF IsInstance(e, NonRetryableClasses, major) THEN 1
    ELSE IF IsInstance(e, TransientClasses, major) THEN 2
    ELSE IF IsInstance(e, {"GeopyError"}, major) THEN 3
    ELSE 0

\* Number of the except clause that catches e: the first one that matches,
\* 0 when none does and e leaves geocode_address.
ExceptClause(e, major) ==
    IF IsInstance(e, NonRetryableClasses, major) THEN 1
    ELSE IF IsInstance(e, TransientClasses, major) THEN 2
    ELSE IF IsInstance(e, {"BaseException"}, major) THEN 3
    ELSE 0

\* Variants of MayRetry: a ceiling that admits one attempt more, one attempt less.
MayRetry_inclusive(counter) == counter <= RETRY_COUNTER_CONST
MayRetry_short(counter) == counter < RETRY_COUNTER_CONST - 1

\* Lines 159 and 170: the retry budget is not used up.
MayRetry(counter) == counter < RETRY_COUNTER_CONST

-----------------------------------------------------------------------------
(* The geocoding service: candidates and responses.                        *)

Component(long, short) == [long_name |-> long, short_name |-> short]

Candidate(lat, lng, fa, lt, comps) ==
    [latitude |-> lat, longitude |-> lng,
     raw |-> [formatted_address |-> fa, location_type |-> lt, address_components |-> comps]]

CandA == Candidate(10, 11, "1 Main St, Shelbyville", "ROOFTOP",
                   <<Component("Shelbyville", "SV")>>)
CandB == Candidate(20, 21, "1 Main St, Springfield", "RANGE_INTERPOLATED",
                   <<Component("Main St", "Main St"), Component("Springfield", "SPF")>>)
CandC == Candidate(30, 31, "Main St, Illinois", "APPROXIMATE",
                   <<Component("Illinois", "IL")>>)
CandD == Candidate(40, 41, Missing, "GEOMETRIC_CENTER", <<>>)
\* A candidate whose formatted address the output file's encoding cannot encode.
CandU == Candidate(50, 51, "<U+0141>odz", "APPROXIMATE", <<>>)

CandidatePool == {CandA, CandB, CandC, CandD}

\* Lists of distinct candidates, up to MaxCands long.
CandidateLists ==
    UNION {{s \in [1..n -> CandidatePool] : \A i, j \in 1..n : i # j => s[i] # s[j]}
           : n \in 0..MaxCands}

Returns(results) == [kind |-> "return", results |-> results, exc |-> NoExc]
Raises(e) == [kind |-> "raise", results |-> <<>>, exc |-> e]
NoResponse == [kind |-> "none", results |-> <<>>, exc |-> NoExc]

ServiceClasses ==
    {"GeocoderTimedOut", "GeocoderQueryError", "GeocoderQuotaExceeded",
     "ConfigurationError", "GeocoderParseError", "ValueError", "GeocoderUnavailable"}
Messages == {"Service timed out", "The given key has gone over the requests limit"}

\* Everything one call of geo_locator.geocode may do.
Responses ==
    {Returns(l) : l \in CandidateLists} \cup
    {Raises(Exc(c, m)) : c \in ServiceClasses, m \in Messages}

\* The responses met while a whole table is processed.
RowResponses ==
    {Returns(<<>>), Returns(<<CandA>>), Returns(<<CandA, CandB>>), Returns(<<CandU>>),
     Raises(Exc("GeocoderTimedOut", "Service timed out")),
     Raises(Exc("GeocoderQuotaExceeded", "The given key has gone over the requests limit")),
     Raises(Exc("GeocoderUnavailable", "Service timed out"))}

\* The entry of service_calls for a response.
Kind(r) == IF r.kind = "return" THEN "return" ELSE r.exc.cls

-----------------------------------------------------------------------------
(* geocode_address, the body of the try block (lines 119-147).             *)

\* Lines 129-136: some address component's long or short name is a locality.
ComponentMatch(location, localities) ==
    \E i \in DOMAIN location.raw.address_components :
        \E j \in DOMAIN localities :
            localities[j] \in {location.raw.address_components[i].long_name,
                               location.raw.address_components[i].short_name}

\* Lines 121-136: index of selected_location in location_results, 0 for None.
RECURSIVE SelectFrom(_, _, _, _)
SelectFrom(location_results, localities, i, selected) ==
    IF i > Len(location_results) THEN selected
    ELSE IF selected = 0 THEN SelectFrom(location_results, localities, i + 1, i)
    ELSE IF ComponentMatch(location_results[i], localities)
        THEN SelectFrom(location_results, localities, i + 1, i)
    ELSE SelectFrom(location_results, localities, i + 1, selected)

\* Variant of SelectLocation: the first result is kept whatever the localities.
SelectLocation_first(location_results, localities) ==
    IF location_results = <<>> THEN 0 ELSE 1

SelectLocation(location_results, localities) ==
    SelectFrom(location_results, localities, 1, 0)

\* Line 133 iterates localities: with localities None it raises TypeError as soon
\* as a candidate after the first has an address component.
SelectionRaises(location_results, localities) ==
    /\ localities.is_none
    /\ \E i \in 2..Len(location_results) :
           location_results[i].raw.address_components # <<>>

\* Variant of FailureMarker: placeholders instead of empty strings.
FailureMarker_na(error) ==
    [Lat |-> 0, Long |-> 0, Error |-> error, formatted_address |-> "N/A", location_type |-> "N/A"]

FailureMarker(error) ==
    [Lat |-> 0, Long |-> 0, Error |-> error, formatted_address |-> "", location_type |-> ""]

\* Lines 151-154 and 162-165: exceptions carry no attribute "message", so the
\* exception object itself is stored.
ErrorMessage(error) == error

\* Variant of NOT_FOUND_MESSAGE.
NOT_FOUND_MESSAGE_no == "no location found, please verify your address line"
NOT_FOUND_MESSAGE == "None location found, please verify your address line"

\* Lines 138-147: the dict built from selected_location; KeyError when the raw
\* payload lacks a key that line 141 or 142 subscripts.
BuildRaises(selected_location) ==
    IF selected_location.raw.formatted_address = Missing
        THEN Exc("KeyError", "'formatted_address'")
    ELSE IF selected_location.raw.location_type = Missing
        THEN Exc("KeyError", "'location_type'")
    ELSE NoExc

SuccessResult(selected_location) ==
    [Lat |-> selected_location.latitude, Long |-> selected_location.longitude,
     Error |-> Str(""),
     formatted_address |-> selected_location.raw.formatted_address,
     location_type |-> selected_location.raw.location_type]

\* The exception that leaves the try block for response r, NoExc if none does.
TryRaises(r, localities) ==
    IF r.kind = "raise" THEN r.exc
    ELSE IF SelectionRaises(r.results, localities)
        THEN Exc("TypeError", "'NoneType' object is not iterable")
    ELSE IF SelectLocation(r.results, localities.items) = 0 THEN NoExc
    ELSE BuildRaises(r.results[SelectLocation(r.results, localities.items)])

\* location_result at the end of a try block that raised nothing.
TryResult(r, localities) ==
    IF SelectLocation(r.results, localities.items) = 0
        THEN FailureMarker(Str(NOT_FOUND_MESSAGE))
    ELSE SuccessResult(r.results[SelectLocation(r.results, localities.items)])

\* Lines 177-181: the block printed before the return.
TraceBlock(line_address, result) ==
    [line_address |-> line_address, formatted_address |-> result.formatted_address,
     location_type |-> result.location_type, Lat |-> result.Lat, Long |-> result.Long]

-----------------------------------------------------------------------------
(* geocode_address as steps: one call of the service, then the code that   *)
(* runs on its response up to the recursive call or the return.            *)

NoResult ==
    [Lat |-> 0, Long |-> 0, Error |-> NoExc,
     formatted_address |-> Missing, location_type |-> Missing]

Raised == TryRaises(response, query.localities)

\* Line 119: geo_locator.geocode(line_address, exactly_one=False, components=...).
CallService(r) ==
    /\ pc = "call"
    /\ response' = r
    /\ service_calls' = Append(service_calls, Kind(r))
    /\ pc' = "handle"
    /\ UNCHANGED <<GOOGLE_API_KEY, geopy_major, header_line, csvinput, rownum, csvoutput, errlog,
                   query, retry_counter, location_result, slept, trace>>

\* Lines 177-183: print the block and return location_result.
Return(result) ==
    /\ location_result' = result
    /\ trace' = Append(trace, TraceBlock(query.line_address, result))
    /\ pc' = "returned"
    /\ UNCHANGED <<GOOGLE_API_KEY, geopy_major, header_line, csvinput, rownum, csvoutput, errlog,
                   query, retry_counter, response, service_calls, slept>>

\* Variant of Recurse: every frame prints its block before it recurses.
Recurse_traced(delay) ==
    /\ retry_counter' = retry_counter + 1
    /\ slept' = slept + delay
    /\ response' = NoResponse
    /\ trace' = Append(trace, TraceBlock(query.line_address, FailureMarker(Raised)))
    /\ pc' = "call"
    /\ UNCHANGED <<GOOGLE_API_KEY, geopy_major, header_line, csvinput, rownum, csvoutput,
                   errlog, query, location_result, service_calls>>

\* Variant of Recurse: the recursive call passes retry_counter unchanged.
Recurse_same_counter(delay) ==
    /\ retry_counter' = retry_counter
    /\ slept' = slept + delay
    /\ response' = NoResponse
    /\ pc' = "call"
    /\ UNCHANGED <<GOOGLE_API_KEY, geopy_major, header_line, csvinput, rownum, csvoutput, errlog,
                   query, location_result, service_calls, trace>>

\* Lines 160 and 172: return geocode_address(..., retry_counter + 1) after
\* sleeping delay seconds; the new frame starts at line 119.
Recurse(delay) ==
    /\ retry_counter' = retry_counter + 1
    /\ slept' = slept + delay
    /\ response' = NoResponse
    /\ pc' = "call"
    /\ UNCHANGED <<GOOGLE_API_KEY, geopy_major, header_line, csvinput, rownum, csvoutput, errlog,
                   query, location_result, service_calls, trace>>

\* Lines 119-147 without an exception, then 177-183.
Resolve ==
    /\ pc = "handle"
    /\ Raised = NoExc
    /\ Return(TryResult(response, query.localities))

\* Lines 150-155, then 177-183.
FailNonRetryable ==
    /\ pc = "handle"
    /\ Raised # NoExc
    /\ ExceptClause(Raised, geopy_major) = 1
    /\ Return(FailureMarker(ErrorMessage(Raised)))

\* Variant of RetryTransient: the retry of a timeout sleeps too.
RetryTransient_sleeps ==
    /\ pc = "handle"
    /\ Raised # NoExc
    /\ ExceptClause(Raised, geopy_major) = 2
    /\ MayRetry(retry_counter)
    /\ Recurse(SLEEP_SECONDS)

\* Lines 158-160.
RetryTransient ==
    /\ pc = "handle"
    /\ Raised # NoExc
    /\ ExceptClause(Raised, geopy_major) = 2
    /\ MayRetry(retry_counter)
    /\ Recurse(0)

\* Lines 158-167, then 177-183.
FailTransient ==
    /\ pc = "handle"
    /\ Raised # NoExc
    /\ ExceptClause(Raised, geopy_major) = 2
    /\ ~MayRetry(retry_counter)
    /\ Return(FailureMarker(ErrorMessage(Raised)))

\* Variant of FailUnclassified: the marker carries a fixed text.
FailUnclassified_generic ==
    /\ pc = "handle"
    /\ Raised # NoExc
    /\ ExceptClause(Raised, geopy_major) = 3
    /\ ~MayRetry(retry_counter)
    /\ Return(FailureMarker(Exc("Exception", "geocoding failed")))

\* Lines 169-172.
RetryUnclassified ==
    /\ pc = "handle"
    /\ Raised # NoExc
    /\ ExceptClause(Raised, geopy_major) = 3
    /\ MayRetry(retry_counter)
    /\ Recurse(SLEEP_SECONDS)

\* Lines 169-175, then 177-183.
FailUnclassified ==
    /\ pc = "handle"
    /\ Raised # NoExc
    /\ ExceptClause(Raised, geopy_major) = 3
    /\ ~MayRetry(retry_counter)
    /\ Return(FailureMarker(Raised))

Handle ==
    \/ Resolve
    \/ FailNonRetryable
    \/ RetryTransient
    \/ FailTransient
    \/ RetryUnclassified
    \/ FailUnclassified

-----------------------------------------------------------------------------
(* The header line of the input file.  A line is the sequence of its       *)
(* characters; a column name counts as one character that is no quote, no  *)
(* white space and no delimiter.                                           *)

\* The names of the input columns, in file order.
InputHeader == <<"ID", "FULL_ADDRESS", "Localidad", "PROV_NAME", "COUNTRY">>

QUOTE == "\""
NEWLINE == "\n"
Whitespace == {" ", NEWLINE}

\* ','.join(...), line 80; with sep "" the text of a sequence of characters.
RECURSIVE Join(_, _)
Join(sep, items) ==
    IF items = <<>> THEN ""
    ELSE IF Len(items) = 1 THEN items[1]
    ELSE items[1] \o sep \o Join(sep, Tail(items))

\* The header line of names, every name between quotes or none; it ends with a newline.
RECURSIVE HeaderCells(_, _)
HeaderCells(names, quoted) ==
    IF names = <<>> THEN <<>>
    ELSE (IF quoted THEN <<QUOTE, names[1], QUOTE>> ELSE <<names[1]>>) \o
         (IF Len(names) = 1 THEN <<NEWLINE>> ELSE <<DELIMITER>> \o HeaderCells(Tail(names), quoted))

PlainHeaderLine == HeaderCells(InputHeader, FALSE)
QuotedHeaderLine == HeaderCells(InputHeader, TRUE)
HeaderLines == {PlainHeaderLine, QuotedHeaderLine}

\* str.split(sep): the pieces of line between the occurrences of sep.
RECURSIVE SplitFrom(_, _, _)
SplitFrom(line, sep, piece) ==
    IF line = <<>> THEN <<piece>>
    ELSE IF line[1] = sep THEN <<piece>> \o SplitFrom(Tail(line), sep, <<>>)
    ELSE SplitFrom(Tail(line), sep, Append(piece, line[1]))

Split(line, sep) == SplitFrom(line, sep, <<>>)

\* str.strip(chars): drop the leading and the trailing characters that are in chars.
RECURSIVE LStrip(_, _)
LStrip(text, chars) ==
    IF text # <<>> /\ text[1] \in chars THEN LStrip(Tail(text), chars) ELSE text

RECURSIVE RStrip(_, _)
RStrip(text, chars) ==
    IF text # <<>> /\ text[Len(text)] \in chars
        THEN RStrip(SubSeq(text, 1, Len(text) - 1), chars) ELSE text

Strip(text, chars) == RStrip(LStrip(text, chars), chars)

\* Line 67: [h.strip('"').strip() for h in next(csvinput).split(DELIMITER)], and
\* line 75, which strips each name once more.
Fieldnames(line) ==
    [k \in DOMAIN Split(line, DELIMITER) |->
        Join("", Strip(Strip(Strip(Split(line, DELIMITER)[k], {QUOTE}), Whitespace), Whitespace))]

-----------------------------------------------------------------------------
(* One geocode_address call on its own, as a unit test makes it.           *)

LocalitiesArgs ==
    {PyNone, PyList(<<>>), PyList(<<"Springfield">>), PyList(<<"Springfield", "IL">>)}

InitResolve ==
    /\ pc = "call"
    /\ GOOGLE_API_KEY = "AIza-key"
    /\ geopy_major \in GeopyVersions
    /\ header_line = PlainHeaderLine
    /\ csvinput = <<>>
    /\ rownum = 0
    /\ csvoutput = [opened |-> FALSE, rows |-> <<>>]
    /\ errlog = <<>>
    /\ \E l \in LocalitiesArgs :
           query = [line_address |-> "1 Main St,Springfield,IL,US", localities |-> l,
                    component_restrictions |-> <<>>]
    /\ retry_counter = 1
    /\ response = NoResponse
    /\ location_result = NoResult
    /\ service_calls = <<>>
    /\ slept = 0
    /\ trace = <<>>

NextResolve ==
    \/ \E r \in Responses : CallService(r)
    \/ Handle

SpecResolve == InitResolve /\ [][NextResolve]_vars

-----------------------------------------------------------------------------
(* The input table and process_addresses_from_csv.                         *)

\* The i-th data row of the file, by the column it stands in.
InputRecord(i) ==
    [ID |-> "r" \o ToString(i),
     FULL_ADDRESS |-> ToString(i) \o " Main St",
     Localidad |-> IF i % 2 = 1 THEN "Springfield" ELSE "Shelbyville",
     PROV_NAME |-> "IL",
     COUNTRY |-> "US"]

InputTables == {[i \in 1..n |-> InputRecord(i)] : n \in 0..MaxRows}

EnvUnset == "<unset>"
EnvValues == {EnvUnset, "", "AIza-key"}

\* What the output path holds before the run.
StaleRow == <<"stale">>

Values(record, columns) == [k \in DOMAIN columns |-> record[columns[k]]]

\* Line 69: the dict csv.DictReader yields for a data row, keyed by fieldnames.
DictRecord(row, fieldnames) ==
    [name \in {fieldnames[k] : k \in DOMAIN fieldnames} |->
        row[InputHeader[CHOOSE k \in DOMAIN fieldnames : fieldnames[k] = name]]]

\* The record the loop of line 78 holds after taking i rows.
Record(i) == DictRecord(csvinput[i], Fieldnames(header_line))

\* Lines 80-92 subscript the record with every configured column name: KeyError
\* when one of them is no field name.
MissingColumn(fieldnames) ==
    \E k \in DOMAIN ADDRESS_COLUMNS_NAME \cup DOMAIN LOCALITY_COLUMN_NAMES :
        \/ k \in DOMAIN ADDRESS_COLUMNS_NAME
           /\ \A j \in DOMAIN fieldnames : fieldnames[j] # ADDRESS_COLUMNS_NAME[k]
        \/ k \in DOMAIN LOCALITY_COLUMN_NAMES
           /\ \A j \in DOMAIN fieldnames : fieldnames[j] # LOCALITY_COLUMN_NAMES[k]

\* Variant of TempRow: Lat and Long change places.
TempRow_swapped(record, location) ==
    Values(record, Fieldnames(header_line)) \o
    <<ToString(location.Long), ToString(location.Lat), StrOf(location.Error),
      location.formatted_address, location.location_type>>

\* Lines 97-106: the record's fields in header order, then the geocoded values,
\* each as the text csv.writer writes for it.
TempRow(record, location) ==
    Values(record, Fieldnames(header_line)) \o
    <<ToString(location.Lat), ToString(location.Long), StrOf(location.Error),
      location.formatted_address, location.location_type>>

\* The texts the output file's encoding cannot encode.
Unencodable == {CandU.raw.formatted_address}

\* writer.writerow(row) raises instead of writing.
WriteRaises(row) == \E k \in DOMAIN row : row[k] \in Unencodable

\* Variant of Startup: only an unset variable is refused ("is None" for "not").
Startup_unset_only ==
    /\ pc = "startup"
    /\ pc' = IF GOOGLE_API_KEY = EnvUnset THEN "aborted" ELSE "main"
    /\ UNCHANGED <<GOOGLE_API_KEY, geopy_major, header_line, csvinput, rownum, csvoutput,
                   errlog, query, retry_counter, response, location_result, service_calls,
                   slept, trace>>

\* Lines 39-41.
Startup ==
    /\ pc = "startup"
    /\ pc' = IF GOOGLE_API_KEY \in {EnvUnset, ""} THEN "aborted" ELSE "main"
    /\ UNCHANGED <<GOOGLE_API_KEY, geopy_major, header_line, csvinput, rownum, csvoutput, errlog,
                   query, retry_counter, response, location_result, service_calls,
                   slept, trace>>

\* Lines 58-75: open both files and write the header.
WriteHeader ==
    /\ pc = "main"
    /\ csvoutput' = [opened |-> TRUE, rows |-> <<Fieldnames(header_line) \o NEW_COLUMNS_NAME>>]
    /\ pc' = "loop"
    /\ UNCHANGED <<GOOGLE_API_KEY, geopy_major, header_line, csvinput, rownum, errlog,
                   query, retry_counter, response, location_result, service_calls,
                   slept, trace>>

\* Lines 78-95: take the next record and call geocode_address for it.
NextRecord ==
    /\ pc = "loop"
    /\ rownum < Len(csvinput)
    /\ ~MissingColumn(Fieldnames(header_line))
    /\ rownum' = rownum + 1
    /\ query' = [line_address |-> Join(DELIMITER, Values(Record(rownum + 1), ADDRESS_COLUMNS_NAME)),
                 localities |-> PyList(Values(Record(rownum + 1), LOCALITY_COLUMN_NAMES)),
                 component_restrictions |-> <<>>]
    /\ retry_counter' = 1
    /\ response' = NoResponse
    /\ location_result' = NoResult
    /\ service_calls' = <<>>
    /\ slept' = 0
    /\ pc' = "call"
    /\ UNCHANGED <<GOOGLE_API_KEY, geopy_major, header_line, csvinput, csvoutput, errlog, trace>>

\* Lines 78-92: a configured column is no key of the record; the KeyError leaves
\* process_addresses_from_csv and ends the process.
RecordKeyError ==
    /\ pc = "loop"
    /\ rownum < Len(csvinput)
    /\ MissingColumn(Fieldnames(header_line))
    /\ rownum' = rownum + 1
    /\ pc' = "crashed"
    /\ UNCHANGED <<GOOGLE_API_KEY, geopy_major, header_line, csvinput, csvoutput, errlog,
                   query, retry_counter, response, location_result, service_calls,
                   slept, trace>>

\* Variant of WriteRow: a failed writer.writerow ends the run.
WriteRow_abort ==
    /\ pc = "returned"
    /\ IF WriteRaises(TempRow(Record(rownum), location_result))
          THEN /\ errlog' = Append(errlog, TempRow(Record(rownum), location_result))
               /\ pc' = "crashed"
               /\ UNCHANGED csvoutput
          ELSE /\ csvoutput' = [csvoutput EXCEPT
                                   !.rows = Append(@, TempRow(Record(rownum), location_result))]
               /\ pc' = "loop"
               /\ UNCHANGED errlog
    /\ UNCHANGED <<GOOGLE_API_KEY, geopy_major, header_line, csvinput, rownum,
                   query, retry_counter, response, location_result, service_calls,
                   slept, trace>>

\* Variant of WriteRow: the row is put right after the header, before the rows
\* written earlier.
WriteRow_on_top ==
    /\ pc = "returned"
    /\ IF WriteRaises(TempRow(Record(rownum), location_result))
          THEN /\ errlog' = Append(errlog, TempRow(Record(rownum), location_result))
               /\ UNCHANGED csvoutput
          ELSE /\ csvoutput' = [csvoutput EXCEPT
                                   !.rows = <<Head(@), TempRow(Record(rownum), location_result)>>
                                            \o Tail(@)]
               /\ UNCHANGED errlog
    /\ pc' = "loop"
    /\ UNCHANGED <<GOOGLE_API_KEY, geopy_major, header_line, csvinput, rownum,
                   query, retry_counter, response, location_result, service_calls,
                   slept, trace>>

\* Lines 97-113: merge the outcome into the row and write it.
WriteRow ==
    /\ pc = "returned"
    /\ IF WriteRaises(TempRow(Record(rownum), location_result))
          THEN /\ errlog' = Append(errlog, TempRow(Record(rownum), location_result))
               /\ UNCHANGED csvoutput
          ELSE /\ csvoutput' = [csvoutput EXCEPT
                                   !.rows = Append(@, TempRow(Record(rownum), location_result))]
               /\ UNCHANGED errlog
    /\ pc' = "loop"
    /\ UNCHANGED <<GOOGLE_API_KEY, geopy_major, header_line, csvinput, rownum,
                   query, retry_counter, response, location_result, service_calls,
                   slept, trace>>

\* Line 78: the reader is exhausted; both files are closed.
Finish ==
    /\ pc = "loop"
    /\ rownum = Len(csvinput)
    /\ pc' = "done"
    /\ UNCHANGED <<GOOGLE_API_KEY, geopy_major, header_line, csvinput, rownum, csvoutput, errlog,
                   query, retry_counter, response, location_result, service_calls,
                   slept, trace>>

Init ==
    /\ pc = "startup"
    /\ GOOGLE_API_KEY \in EnvValues
    /\ geopy_major \in GeopyVersions
    /\ header_line \in HeaderLines
    /\ csvinput \in InputTables
    /\ rownum = 0
    /\ csvoutput \in {[opened |-> FALSE, rows |-> <<>>],
                      [opened |-> FALSE, rows |-> <<StaleRow>>]}
    /\ errlog = <<>>
    /\ query = [line_address |-> "", localities |-> PyNone, component_restrictions |-> <<>>]
    /\ retry_counter = 1
    /\ response = NoResponse
    /\ location_result = NoResult
    /\ service_calls = <<>>
    /\ slept = 0
    /\ trace = <<>>

Next ==
    \/ Startup
    \/ WriteHeader
    \/ NextRecord
    \/ RecordKeyError
    \/ \E r \in RowResponses : CallService(r)
    \/ Handle
    \/ WriteRow
    \/ Finish

Spec == Init /\ [][Next]_vars

-----------------------------------------------------------------------------
(* Properties of geocode_address, checked under SpecResolve.               *)

Returned == pc = "returned"
Calls == Len(service_calls)
LastCall == service_calls[Calls]
IsFailureMarker(result) ==
    /\ result.Lat = 0 /\ result.Long = 0
    /\ result.formatted_address = "" /\ result.location_type = ""
    /\ result.Error # Str("")
IsSuccessOf(result, c) ==
    /\ result.Error = Str("")
    /\ result.Lat = c.latitude /\ result.Long = c.longitude
    /\ result.formatted_address = c.raw.formatted_address
    /\ result.location_type = c.raw.location_type

\* The candidates and hints of the data model: every candidate carries a formatted
\* address and a location type, and the hints are a list.
WellFormed(results) ==
    \A i \in DOMAIN results :
        results[i].raw.formatted_address # Missing /\ results[i].raw.location_type # Missing
HasHintComponent(c, hints) ==
    \E i \in DOMAIN c.raw.address_components : \E j \in DOMAIN hints :
        \/ c.raw.address_components[i].long_name = hints[j]
        \/ c.raw.address_components[i].short_name = hints[j]
Max(S) == CHOOSE m \in S : \A x \in S : x <= m
\* The last candidate with a hint component, the first candidate when no later one has any.
LastMatchOrFirst(results, hints) ==
    IF {i \in 2..Len(results) : HasHintComponent(results[i], hints)} = {} THEN 1
    ELSE Max({i \in 1..Len(results) : HasHintComponent(results[i], hints)})

\* C1: a resolution never calls the service more than RETRY_COUNTER_CONST = 5 times,
\* and whatever the service answered so far the call is either over, with an outcome
\* of one of the two shapes, or able to take its next step.
C1_AtMostFiveCalls ==
    /\ Calls <= RETRY_COUNTER_CONST
    /\ Calls <= retry_counter
    /\ Returned \/ ENABLED NextResolve
    /\ Returned => \/ IsFailureMarker(location_result)
                   \/ location_result.Error = Str("")
C1_Witness == Returned /\ Calls = RETRY_COUNTER_CONST

\* C2: when the service timed out on attempts 1..k (k from 0 to 4) and then returned a
\* non-empty list of well-formed candidates, for hints given as a list: no further call
\* is made and the outcome is the success outcome of the selected candidate; and a
\* timeout on an attempt before the fifth is always followed by another attempt.
TimeoutsThenReturn ==
    /\ Calls >= 1
    /\ LastCall = "return"
    /\ \A i \in 1..(Calls - 1) : service_calls[i] = "GeocoderTimedOut"
C2_TimeoutsThenSuccess ==
    /\ (/\ TimeoutsThenReturn
        /\ response.results # <<>>
        /\ WellFormed(response.results)
        /\ ~query.localities.is_none)
       => /\ pc \in {"handle", "returned"}
          /\ pc = "handle" => ENABLED Resolve
          /\ Returned => IsSuccessOf(location_result,
                             response.results[LastMatchOrFirst(response.results,
                                                               query.localities.items)])
    /\ (pc = "handle" /\ Kind(response) = "GeocoderTimedOut" /\ Calls < RETRY_COUNTER_CONST)
       => ENABLED RetryTransient
C2_Witness ==
    /\ Returned
    /\ service_calls = <<"GeocoderTimedOut", "GeocoderTimedOut", "GeocoderTimedOut",
                         "GeocoderTimedOut", "return">>
    /\ location_result.Error = Str("")
    /\ location_result.Lat = CandB.latitude

\* C3: when the service timed out on every attempt, the call returns only after the
\* fifth attempt, with the failure marker whose Error reads as the message of the
\* timeout raised last.
OnlyTimeouts == Calls >= 1 /\ \A i \in 1..Calls : service_calls[i] = "GeocoderTimedOut"
C3_FiveTimeoutsFail ==
    (Returned /\ OnlyTimeouts)
    => /\ Calls = 5
       /\ IsFailureMarker(location_result)
       /\ location_result.Error.cls = "GeocoderTimedOut"
       /\ StrOf(location_result.Error) = response.exc.msg
C3_Witness == Returned /\ OnlyTimeouts /\ Calls = 5 /\ IsFailureMarker(location_result)

\* C4: a quota, configuration, invalid-argument or parse error raised on any attempt is
\* the last call of the resolution, and the call returns the failure marker whose Error
\* reads as that error's message.
NonRetryableRaised ==
    {"GeocoderQuotaExceeded", "ConfigurationError", "ValueError", "GeocoderParseError"}
C4_NonRetryableEndsCall ==
    \A i \in 1..Calls :
        service_calls[i] \in NonRetryableRaised
        => /\ i = Calls
           /\ pc \in {"handle", "returned"}
           /\ pc = "handle" => ENABLED FailNonRetryable
           /\ Returned => /\ IsFailureMarker(location_result)
                          /\ location_result.Error.cls = service_calls[i]
                          /\ StrOf(location_result.Error) = response.exc.msg
C4_Witness ==
    /\ Returned
    /\ Calls = 3
    /\ LastCall = "GeocoderQuotaExceeded"
    /\ IsFailureMarker(location_result)

\* C5: a GeocoderQueryError raised on an attempt before the fifth is retried like a
\* timeout: the call returns with a GeocoderQueryError as its last service response
\* only when that was the fifth attempt.
C5_QueryErrorRetried ==
    (Returned /\ Calls >= 1 /\ LastCall = "GeocoderQueryError") => Calls = RETRY_COUNTER_CONST

\* C6: every returned outcome is the success outcome of one candidate of the last
\* response (Error the empty string) or the failure marker (Error not the empty string,
\* Lat = 0, Long = 0, formatted_address = "", location_type = ""), never a mix.
C6_TwoShapes ==
    Returned =>
        \/ /\ location_result.Error = Str("")
           /\ \E i \in DOMAIN response.results :
                  IsSuccessOf(location_result, response.results[i])
           /\ ~IsFailureMarker(location_result)
        \/ /\ location_result.Error # Str("")
           /\ IsFailureMarker(location_result)
           /\ \A i \in DOMAIN response.results :
                  ~IsSuccessOf(location_result, response.results[i])
C6_Witness ==
    /\ Returned
    /\ response.kind = "return"
    /\ Len(response.results) = 2
    /\ IsFailureMarker(location_result)
    /\ location_result.Error.cls = "KeyError"

\* C7: whatever the service raised and whatever was raised while selecting a candidate
\* or building the outcome, one of the except clauses catches it: after every service
\* response the call either returns an outcome or makes the next attempt.
C7_NoErrorEscapes ==
    /\ pc = "handle" => /\ ENABLED Handle
                        /\ Raised # NoExc => ExceptClause(Raised, geopy_major) \in {1, 2, 3}
    /\ Returned => IsFailureMarker(location_result) \/ location_result.Error = Str("")
C7_Witness ==
    /\ Returned
    /\ query.localities.is_none
    /\ LastCall = "return"
    /\ location_result.Error.cls = "TypeError"

\* C8: a success outcome is that of the last candidate of the returned list with an
\* address component whose long or short name is a hint, and of the first candidate
\* when no candidate after the first has one (hints that are None hold no value).
C8_LastMatchWins ==
    (Returned /\ location_result.Error = Str(""))
    => IsSuccessOf(location_result,
                   response.results[LastMatchOrFirst(response.results, query.localities.items)])
C8_Witness ==
    /\ Returned
    /\ query.localities = PyList(<<"Springfield", "IL">>)
    /\ response.results = <<CandA, CandB, CandC>>
    /\ IsSuccessOf(location_result, CandC)

\* C9 as stated: an empty candidate list gives the failure marker whose Error is
\* "no location found, please verify your address line".
C9_NoLocationFound ==
    (Returned /\ response.kind = "return" /\ response.results = <<>>)
    => location_result =
           [Lat |-> 0, Long |-> 0,
            Error |-> Str("no location found, please verify your address line"),
            formatted_address |-> "", location_type |-> ""]

\* C9 amended: an empty candidate list gives the failure marker whose Error is
\* "None location found, please verify your address line".
C9_NoneLocationFound ==
    (Returned /\ response.kind = "return" /\ response.results = <<>>)
    => location_result =
           [Lat |-> 0, Long |-> 0,
            Error |-> Str("None location found, please verify your address line"),
            formatted_address |-> "", location_type |-> ""]
C9_Witness ==
    /\ Returned
    /\ response.kind = "return"
    /\ response.results = <<>>
    /\ Calls = 2

-----------------------------------------------------------------------------
(* Properties of process_addresses_from_csv, checked under Spec.           *)

DataRows == Tail(csvoutput.rows)

\* C10: when the run is over the output holds one data row per input record, in input
\* order, each starting with the fields of its record in header order.
C10_OneRowPerRecord ==
    pc = "done"
    => /\ Len(DataRows) = Len(csvinput)
       /\ \A i \in 1..Len(csvinput) :
              i <= Len(DataRows)
              => SubSeq(DataRows[i], 1, Len(InputHeader)) = Values(csvinput[i], InputHeader)

\* The rows whose write has been attempted, and the input row a written or logged
\* row comes from (rows are told apart by their first field).
Attempted == IF pc \in {"call", "handle", "returned", "crashed"} THEN rownum - 1 ELSE rownum
Written == IF csvoutput.opened THEN Tail(csvoutput.rows) ELSE <<>>
RowIndex(row) == CHOOSE i \in 1..Len(csvinput) : csvinput[i].ID = row[1]
FromInput(row) == \E i \in 1..Len(csvinput) : csvinput[i].ID = row[1]
AddressOf(i) ==
    csvinput[i].FULL_ADDRESS \o "," \o csvinput[i].Localidad \o "," \o
    csvinput[i].PROV_NAME \o "," \o csvinput[i].COUNTRY

\* C11: a failed write is logged with its row and the run goes on: every row whose
\* write was attempted is either in the output or in the log, a logged row never stops
\* the run, and at the end every input row has been geocoded and written or logged.
C11_WriteFailureLogged ==
    /\ csvoutput.opened => Len(Written) + Len(errlog) = Attempted
    /\ \A k \in 1..Len(errlog) :
           /\ FromInput(errlog[k])
           /\ RowIndex(errlog[k]) <= Attempted
           /\ WriteRaises(errlog[k])
    /\ errlog # <<>> =>
           /\ pc \in {"loop", "call", "handle", "returned", "done"}
           /\ pc = "loop" /\ rownum < Len(csvinput)
              => ~MissingColumn(Fieldnames(header_line))
    /\ pc = "done" =>
           /\ Len(trace) = Len(csvinput)
           /\ \A i \in 1..Len(csvinput) :
                  \/ \E k \in 1..Len(Written) : Written[k][1] = csvinput[i].ID
                  \/ \E k \in 1..Len(errlog) : errlog[k][1] = csvinput[i].ID
C11_Witness ==
    /\ pc = "done"
    /\ Len(errlog) = 1 /\ errlog[1][1] = csvinput[1].ID
    /\ Len(Written) = 1 /\ Written[1][1] = csvinput[2].ID

\* C12: rows are processed one after another: while the service is called for row
\* rownum the write of every earlier row has been attempted and only their trace
\* blocks are printed, resolutions succeed each other in input order, and the rows of
\* the output stand in input order.
C12_Sequential ==
    /\ pc \in {"call", "handle", "returned"} =>
           /\ rownum \in 1..Len(csvinput)
           /\ query.line_address = AddressOf(rownum)
           /\ Len(Written) + Len(errlog) = rownum - 1
           /\ Len(trace) = (IF pc = "returned" THEN rownum ELSE rownum - 1)
    /\ \A i \in 1..Len(trace) : trace[i].line_address = AddressOf(i)
    /\ \A j, k \in 1..Len(Written) :
           j < k => /\ FromInput(Written[j]) /\ FromInput(Written[k])
                    /\ RowIndex(Written[j]) < RowIndex(Written[k])
C12_Witness ==
    /\ pc = "handle"
    /\ rownum = 2
    /\ retry_counter = 3
    /\ Len(Written) = 1

\* C13: every geocode_address call of the row loop prints exactly one block, whatever
\* the number of its retries; the block is printed when the call has returned, and it
\* carries the call's query string and the formatted address, location type, Lat and
\* Long of the returned outcome.
C13_OneTracePerCall ==
    /\ Len(trace) = (IF pc \in {"call", "handle", "crashed"} THEN rownum - 1 ELSE rownum)
    /\ (pc \in {"returned", "loop", "done"} /\ rownum >= 1) =>
           trace[rownum] = [line_address |-> query.line_address,
                            formatted_address |-> location_result.formatted_address,
                            location_type |-> location_result.location_type,
                            Lat |-> location_result.Lat,
                            Long |-> location_result.Long]
C13_Witness ==
    /\ pc = "returned"
    /\ Calls = RETRY_COUNTER_CONST
    /\ rownum = 2
    /\ Len(trace) = 2
    /\ trace[2].formatted_address = ""
    /\ trace[1].formatted_address = CandA.raw.formatted_address

\* C14: the first row of the output is the header, the input column names stripped of
\* quotes and white space followed by NEW_COLUMNS_NAME; it is written once, and no
\* record is taken and no service call made before it is written.
C14_HeaderOnceFirst ==
    /\ csvoutput.opened =>
           /\ csvoutput.rows[1] = InputHeader \o NEW_COLUMNS_NAME
           /\ \A k \in 2..Len(csvoutput.rows) : csvoutput.rows[k] # csvoutput.rows[1]
    /\ ~csvoutput.opened => rownum = 0 /\ service_calls = <<>> /\ trace = <<>>

\* C15: with GOOGLE_API_KEY unset or empty the process ends at start-up: no record is
\* taken, no service call is made, nothing is printed and the output file is neither
\* opened nor changed.
C15_NoKeyNoRun ==
    GOOGLE_API_KEY \in {EnvUnset, ""} =>
        /\ pc \in {"startup", "aborted"}
        /\ rownum = 0
        /\ service_calls = <<>>
        /\ trace = <<>>
        /\ ~csvoutput.opened
        /\ csvoutput.rows \in {<<>>, <<StaleRow>>}
C15_Witness ==
    /\ pc = "aborted"
    /\ GOOGLE_API_KEY = ""
    /\ csvoutput.rows = <<StaleRow>>
    /\ Len(csvinput) = MaxRows

\* C16: within one geocode_address call the time slept is 2 for every attempt that
\* raised an unclassified exception (one no except clause names: from the service, or
\* from the code that selects and builds) and was followed by another attempt; timeouts,
\* malformed-query errors, non-retryable errors and the last attempt add no delay.
RetriedAttempts == 1..(IF pc = "call" THEN Calls ELSE Calls - 1)
C16_SleepPerUnclassifiedRetry ==
    slept = 2 * Cardinality({i \in RetriedAttempts :
                                service_calls[i] \in {"GeocoderUnavailable", "return"}})
C16_Witness ==
    /\ Returned
    /\ service_calls = <<"GeocoderUnavailable", "GeocoderTimedOut", "GeocoderUnavailable",
                         "GeocoderTimedOut", "GeocoderUnavailable">>
    /\ slept = 4

\* C17: timeouts and unclassified exceptions draw on one retry counter: a call whose
\* every attempt raised a timeout or an unclassified service exception made five
\* attempts and returns the failure marker whose Error is the exception of the fifth.
OnlyRetryable ==
    /\ Calls >= 1
    /\ \A i \in 1..Calls : service_calls[i] \in {"GeocoderTimedOut", "GeocoderUnavailable"}
C17_SharedBudgetLastError ==
    (Returned /\ OnlyRetryable)
    => /\ Calls = 5
       /\ retry_counter = 5
       /\ IsFailureMarker(location_result)
       /\ location_result.Error = response.exc
       /\ location_result.Error.cls = service_calls[5]
C17_Witness ==
    /\ Returned
    /\ service_calls = <<"GeocoderTimedOut", "GeocoderTimedOut", "GeocoderUnavailable",
                         "GeocoderTimedOut", "GeocoderUnavailable">>
    /\ location_result.Error = Exc("GeocoderUnavailable", "Service timed out")

\* C18: a service call that returned a candidate list is the last call of the
\* resolution: once it has returned, geocode_address is handling it or has returned,
\* and no call precedes another one that returned normally.
C18_ReturnEndsResolution ==
    \A i \in 1..Calls :
        service_calls[i] = "return" => (i = Calls /\ pc \in {"handle", "returned"})

\* C19: an output row holds the field values of its input row, unchanged and in
\* header order, followed by Lat, Long, Error, formatted_address and location_type of
\* the outcome geocode_address returned for that row's own query: the outcome printed
\* for the row's query, and, for the row written last, the outcome just returned.
Derived(location) ==
    <<ToString(location.Lat), ToString(location.Long), StrOf(location.Error),
      location.formatted_address, location.location_type>>
Original(row) == SubSeq(row, 1, Len(InputHeader))
C19_DerivedFromOwnOutcome ==
    \A k \in 1..Len(Written) :
        /\ Len(Written[k]) = Len(InputHeader) + Len(NEW_COLUMNS_NAME)
        /\ FromInput(Written[k])
        /\ Original(Written[k]) = Values(csvinput[RowIndex(Written[k])], InputHeader)
        /\ RowIndex(Written[k]) <= Len(trace)
        /\ trace[RowIndex(Written[k])].line_address = AddressOf(RowIndex(Written[k]))
        /\ Written[k][6] = ToString(trace[RowIndex(Written[k])].Lat)
        /\ Written[k][7] = ToString(trace[RowIndex(Written[k])].Long)
        /\ Written[k][8] = "" <=> trace[RowIndex(Written[k])].formatted_address # ""
        /\ Written[k][9] = trace[RowIndex(Written[k])].formatted_address
        /\ Written[k][10] = trace[RowIndex(Written[k])].location_type
        /\ (pc \in {"loop", "done"} /\ RowIndex(Written[k]) = rownum)
           => Written[k] = Original(Written[k]) \o Derived(location_result)
C19_Witness ==
    /\ pc = "done"
    /\ Len(Written) = 2
    /\ Written[1] = <<"r1", "1 Main St", "Springfield", "IL", "US",
                      "20", "21", "", CandB.raw.formatted_address, CandB.raw.location_type>>
    /\ Written[2] = <<"r2", "2 Main St", "Shelbyville", "IL", "US",
                      "0", "0", "Service timed out", "", "">>
    /\ location_result.Error = Exc("GeocoderTimedOut", "Service timed out")

====
